---- MODULE Spec2Model ----
(***************************************************************************)
(* State-machine model of the query / fetch machinery of hecs              *)
(* (src/src/query.rs): QueryBorrow and its dynamic column borrows, the     *)
(* Fetch implementations of every query form, QueryIter, ChunkIter,        *)
(* BatchedIter and Batch.                                                   *)
(*                                                                          *)
(* The archetype store (archetype.rs) is not part of the sources at hand;  *)
(* the few operations of it that the query code calls (has, get, len,      *)
(* entities, borrow, borrow_mut, release, release_mut) are modelled from   *)
(* the written specification, sections 3 and 4.2.                           *)
(***************************************************************************)
EXTENDS Integers, Sequences, FiniteSets, Bags, TLC

VARIABLES
    archetypes,    \* the world's archetype list: types, len, entities, columns
    borrow_state,  \* per archetype, per column: <0 one writer, 0 idle, >0 readers
    queries,       \* per slot: the QueryBorrow object (query type Q, borrowed)
    iters,         \* per slot: the QueryIter / BatchedIter made from the borrow
    batches,       \* per slot: the Batch objects yielded by the BatchedIter
    held,          \* per slot: net column borrows its borrow objects acquired
    written,       \* per entity id and component: last value stored through &mut
    entities       \* the entity directory: per id its generation, the free list

vars == <<archetypes, borrow_state, queries, iters, batches, held, written,
          entities>>

-----------------------------------------------------------------------------
(* Bounds of the model *)

\* rows per archetype are drawn from 0..MaxLen
MaxLen == 2
\* batch sizes are drawn from 0..MaxBatch
MaxBatch == 2
\* a BatchedIter is asked for at most MaxEmptyBatches batches of no rows
MaxEmptyBatches == 2
\* batches being advanced at the same time (the workers of a pool)
MaxWorkers == 2
\* bits of the scaled-down u32 word
WordBits == 4
\* with / without applications per query borrow
MaxTransforms == 1
\* entity ids the directory hands out are 0..MaxIds - 1
MaxIds == 2
\* an id is recycled until its generation is MaxGeneration
MaxGeneration == 2
\* calls of next counted on an iterator that has returned None
MaxNones == 2
\* batches of one iter_batched call advanced until they return None
MaxEnded == 1

Min(x, y) == IF x <= y THEN x ELSE y

Comps == {"A", "B"}
Slots == {1, 2}
WriteVals == {500}
NoVal == -1

-----------------------------------------------------------------------------
(* Access: Option<Access> under its derived order, None < Iterate < Read < Write *)

Skip == 0
Iterate == 1
Read == 2
Write == 3

AccessMax(x, y) == IF x >= y THEN x ELSE y

-----------------------------------------------------------------------------
(* Query types.  Every query is a record [kind, t, sub]. *)

QEntity == [kind |-> "Entity", t |-> "-", sub |-> <<>>]
QRead(T) == [kind |-> "Read", t |-> T, sub |-> <<>>]
QWrite(T) == [kind |-> "Write", t |-> T, sub |-> <<>>]
QOption(Q) == [kind |-> "Option", t |-> "-", sub |-> <<Q>>]
QWithout(T, Q) == [kind |-> "Without", t |-> T, sub |-> <<Q>>]
QWith(T, Q) == [kind |-> "With", t |-> T, sub |-> <<Q>>]
QTuple(qs) == [kind |-> "Tuple", t |-> "-", sub |-> qs]

-----------------------------------------------------------------------------
(* Archetype operations used by the query code *)

Archetype_has(arch, T) == T \in arch.types

Archetype_get(arch, T) == T \in arch.types

Archetype_len(arch) == arch.len

Archetype_entities(arch) == arch.entities

\* borrow::<T>(): one more shared reader unless a writer holds the column
Archetype_borrow(a, T, r) ==
    IF ~Archetype_has(archetypes[a], T) THEN r
    ELSE IF r.bs[a][T] < 0 THEN [r EXCEPT !.ok = FALSE]
    ELSE [r EXCEPT !.bs[a][T] = @ + 1]

\* borrow_mut::<T>(): requires the idle state, sets the writer state
Archetype_borrow_mut(a, T, r) ==
    IF ~Archetype_has(archetypes[a], T) THEN r
    ELSE IF r.bs[a][T] # 0 THEN [r EXCEPT !.ok = FALSE]
    ELSE [r EXCEPT !.bs[a][T] = -1]

Archetype_release(a, T, bs) ==
    IF ~Archetype_has(archetypes[a], T) THEN bs
    ELSE [bs EXCEPT ![a][T] = @ - 1]

Archetype_release_mut(a, T, bs) ==
    IF ~Archetype_has(archetypes[a], T) THEN bs
    ELSE [bs EXCEPT ![a][T] = @ + 1]

-----------------------------------------------------------------------------
(* Fetch::access *)

RECURSIVE Fetch_access(_, _)
RECURSIVE Tuple_access(_, _, _, _)

EntityFetch_access(arch) == Iterate

FetchRead_access(T, arch) == IF Archetype_has(arch, T) THEN Read ELSE Skip

FetchWrite_access(T, arch) == IF Archetype_has(arch, T) THEN Write ELSE Skip

\* an Option that skipped whenever its inner query skips
TryFetch_access_strict(Q, arch) == Fetch_access(Q, arch)

TryFetch_access(Q, arch) ==
    LET x == Fetch_access(Q, arch) IN IF x = Skip THEN Iterate ELSE x

FetchWithout_access(T, Q, arch) ==
    IF Archetype_has(arch, T) THEN Skip ELSE Fetch_access(Q, arch)

FetchWith_access(T, Q, arch) ==
    IF Archetype_has(arch, T) THEN Fetch_access(Q, arch) ELSE Skip

Tuple_access(qs, i, arch, access) ==
    IF i > Len(qs) THEN access
    ELSE LET x == Fetch_access(qs[i], arch) IN
         IF x = Skip THEN Skip
         ELSE Tuple_access(qs, i + 1, arch, AccessMax(access, x))

Fetch_access(Q, arch) ==
    CASE Q.kind = "Entity" -> EntityFetch_access(arch)
      [] Q.kind = "Read" -> FetchRead_access(Q.t, arch)
      [] Q.kind = "Write" -> FetchWrite_access(Q.t, arch)
      [] Q.kind = "Option" -> TryFetch_access(Q.sub[1], arch)
      [] Q.kind = "Without" -> FetchWithout_access(Q.t, Q.sub[1], arch)
      [] Q.kind = "With" -> FetchWith_access(Q.t, Q.sub[1], arch)
      [] Q.kind = "Tuple" -> Tuple_access(Q.sub, 1, arch, Iterate)

-----------------------------------------------------------------------------
(* Fetch::borrow.  r = [bs, ok]: the borrow state so far and whether no     *)
(* borrow has panicked; a panic stops everything that follows it.            *)

RECURSIVE Fetch_borrow(_, _, _)
RECURSIVE Tuple_borrow(_, _, _, _)

FetchRead_borrow(T, a, r) == Archetype_borrow(a, T, r)

\* an exclusive request that took the shared borrow
FetchWrite_borrow_shared(T, a, r) == Archetype_borrow(a, T, r)

FetchWrite_borrow(T, a, r) == Archetype_borrow_mut(a, T, r)

TryFetch_borrow(Q, a, r) == Fetch_borrow(Q, a, r)

FetchWithout_borrow(T, Q, a, r) == Fetch_borrow(Q, a, r)

\* a With that also borrowed the column it only requires
FetchWith_borrow_T(T, Q, a, r) == Fetch_borrow(Q, a, Archetype_borrow(a, T, r))

FetchWith_borrow(T, Q, a, r) == Fetch_borrow(Q, a, r)

Tuple_borrow(qs, i, a, r) ==
    IF i > Len(qs) THEN r
    ELSE Tuple_borrow(qs, i + 1, a, Fetch_borrow(qs[i], a, r))

Fetch_borrow(Q, a, r) ==
    IF ~r.ok THEN r
    ELSE CASE Q.kind = "Entity" -> r
           [] Q.kind = "Read" -> FetchRead_borrow(Q.t, a, r)
           [] Q.kind = "Write" -> FetchWrite_borrow(Q.t, a, r)
           [] Q.kind = "Option" -> TryFetch_borrow(Q.sub[1], a, r)
           [] Q.kind = "Without" -> FetchWithout_borrow(Q.t, Q.sub[1], a, r)
           [] Q.kind = "With" -> FetchWith_borrow(Q.t, Q.sub[1], a, r)
           [] Q.kind = "Tuple" -> Tuple_borrow(Q.sub, 1, a, r)

-----------------------------------------------------------------------------
(* Fetch::release *)

RECURSIVE Fetch_release(_, _, _)
RECURSIVE Tuple_release(_, _, _, _)

FetchRead_release(T, a, bs) == Archetype_release(a, T, bs)

\* an exclusive request released as a shared one
FetchWrite_release_shared(T, a, bs) == Archetype_release(a, T, bs)

FetchWrite_release(T, a, bs) == Archetype_release_mut(a, T, bs)

Tuple_release(qs, i, a, bs) ==
    IF i > Len(qs) THEN bs
    ELSE Tuple_release(qs, i + 1, a, Fetch_release(qs[i], a, bs))

Fetch_release(Q, a, bs) ==
    CASE Q.kind = "Entity" -> bs
      [] Q.kind = "Read" -> FetchRead_release(Q.t, a, bs)
      [] Q.kind = "Write" -> FetchWrite_release(Q.t, a, bs)
      [] Q.kind = "Option" -> Fetch_release(Q.sub[1], a, bs)
      [] Q.kind = "Without" -> Fetch_release(Q.sub[1], a, bs)
      [] Q.kind = "With" -> Fetch_release(Q.sub[1], a, bs)
      [] Q.kind = "Tuple" -> Tuple_release(Q.sub, 1, a, bs)

-----------------------------------------------------------------------------
(* Fetch::get and Fetch::next.  A fetch is a record [kind, a, t, ptr, sub]:  *)
(* ptr is the row the cursor points at in column t (or in the entity array)  *)
(* of archetype a.  NoFetch is Option::None.  An item is a record            *)
(* [kind, a, t, v, sub]: an Entity item carries the entity id read from the  *)
(* entity array, a Ref / Mut item is the reference to row v of column t.     *)

NoFetch == [kind |-> "None", a |-> 0, t |-> "-", ptr |-> 0, sub |-> <<>>]
NoItem == [kind |-> "None", a |-> 0, t |-> "-", v |-> 0, sub |-> <<>>]
Garbage == -2

RECURSIVE Fetch_get(_, _, _)
RECURSIVE Tuple_get(_, _, _, _, _)

EntityFetch_get(a, offset) ==
    [kind |-> "EntityFetch", a |-> a, t |-> "-", ptr |-> offset, sub |-> <<>>]

\* a get that accepted the column at offset 0 only
FetchRead_get_first(T, a, offset) ==
    IF Archetype_get(archetypes[a], T) /\ offset = 0
    THEN [kind |-> "FetchRead", a |-> a, t |-> T, ptr |-> offset, sub |-> <<>>]
    ELSE NoFetch

FetchRead_get(T, a, offset) ==
    IF Archetype_get(archetypes[a], T)
    THEN [kind |-> "FetchRead", a |-> a, t |-> T, ptr |-> offset, sub |-> <<>>]
    ELSE NoFetch

FetchWrite_get(T, a, offset) ==
    IF Archetype_get(archetypes[a], T)
    THEN [kind |-> "FetchWrite", a |-> a, t |-> T, ptr |-> offset, sub |-> <<>>]
    ELSE NoFetch

TryFetch_get(Q, a, offset) ==
    [kind |-> "TryFetch", a |-> a, t |-> "-", ptr |-> 0,
     sub |-> <<Fetch_get(Q, a, offset)>>]

FetchWithout_get(T, Q, a, offset) ==
    IF Archetype_has(archetypes[a], T) THEN NoFetch
    ELSE LET f == Fetch_get(Q, a, offset) IN
         IF f = NoFetch THEN NoFetch
         ELSE [kind |-> "FetchWithout", a |-> a, t |-> T, ptr |-> 0, sub |-> <<f>>]

FetchWith_get(T, Q, a, offset) ==
    IF ~Archetype_has(archetypes[a], T) THEN NoFetch
    ELSE LET f == Fetch_get(Q, a, offset) IN
         IF f = NoFetch THEN NoFetch
         ELSE [kind |-> "FetchWith", a |-> a, t |-> T, ptr |-> 0, sub |-> <<f>>]

Tuple_get(qs, i, a, offset, fs) ==
    IF i > Len(qs)
    THEN [kind |-> "Tuple", a |-> a, t |-> "-", ptr |-> 0, sub |-> fs]
    ELSE LET f == Fetch_get(qs[i], a, offset) IN
         IF f = NoFetch THEN NoFetch
         ELSE Tuple_get(qs, i + 1, a, offset, Append(fs, f))

Fetch_get(Q, a, offset) ==
    CASE Q.kind = "Entity" -> EntityFetch_get(a, offset)
      [] Q.kind = "Read" -> FetchRead_get(Q.t, a, offset)
      [] Q.kind = "Write" -> FetchWrite_get(Q.t, a, offset)
      [] Q.kind = "Option" -> TryFetch_get(Q.sub[1], a, offset)
      [] Q.kind = "Without" -> FetchWithout_get(Q.t, Q.sub[1], a, offset)
      [] Q.kind = "With" -> FetchWith_get(Q.t, Q.sub[1], a, offset)
      [] Q.kind = "Tuple" -> Tuple_get(Q.sub, 1, a, offset, <<>>)

RECURSIVE Fetch_next(_)
RECURSIVE Tuple_next(_, _, _, _)

\* reading past the end of the entity array is undefined: it gives Garbage
EntityFetch_next(f) ==
    LET es == Archetype_entities(archetypes[f.a]) IN
    [item |-> [kind |-> "Entity", a |-> f.a, t |-> "-",
               v |-> IF f.ptr < Len(es) THEN es[f.ptr + 1] ELSE Garbage,
               sub |-> <<>>],
     fetch |-> [f EXCEPT !.ptr = @ + 1]]

\* a next that did not advance the pointer
FetchRead_next_stuck(f) ==
    [item |-> [kind |-> "Ref", a |-> f.a, t |-> f.t, v |-> f.ptr, sub |-> <<>>],
     fetch |-> f]

FetchRead_next(f) ==
    [item |-> [kind |-> "Ref", a |-> f.a, t |-> f.t, v |-> f.ptr, sub |-> <<>>],
     fetch |-> [f EXCEPT !.ptr = @ + 1]]

\* a next that advanced the pointer before reading it
FetchWrite_next_advanced(f) ==
    [item |-> [kind |-> "Mut", a |-> f.a, t |-> f.t, v |-> f.ptr + 1, sub |-> <<>>],
     fetch |-> [f EXCEPT !.ptr = @ + 1]]

FetchWrite_next(f) ==
    [item |-> [kind |-> "Mut", a |-> f.a, t |-> f.t, v |-> f.ptr, sub |-> <<>>],
     fetch |-> [f EXCEPT !.ptr = @ + 1]]

TryFetch_next(f) ==
    IF f.sub[1] = NoFetch
    THEN [item |-> [kind |-> "OptNone", a |-> f.a, t |-> "-", v |-> 0, sub |-> <<>>],
          fetch |-> f]
    ELSE LET r == Fetch_next(f.sub[1]) IN
         [item |-> [kind |-> "OptSome", a |-> f.a, t |-> "-", v |-> 0,
                    sub |-> <<r.item>>],
          fetch |-> [f EXCEPT !.sub = <<r.fetch>>]]

FetchWithout_next(f) ==
    LET r == Fetch_next(f.sub[1]) IN
    [item |-> r.item, fetch |-> [f EXCEPT !.sub = <<r.fetch>>]]

FetchWith_next(f) ==
    LET r == Fetch_next(f.sub[1]) IN
    [item |-> r.item, fetch |-> [f EXCEPT !.sub = <<r.fetch>>]]

Tuple_next(f, i, items, fs) ==
    IF i > Len(f.sub)
    THEN [item |-> [kind |-> "Tuple", a |-> f.a, t |-> "-", v |-> 0, sub |-> items],
          fetch |-> [f EXCEPT !.sub = fs]]
    ELSE LET r == Fetch_next(f.sub[i]) IN
         Tuple_next(f, i + 1, Append(items, r.item), Append(fs, r.fetch))

Fetch_next(f) ==
    CASE f.kind = "EntityFetch" -> EntityFetch_next(f)
      [] f.kind = "FetchRead" -> FetchRead_next(f)
      [] f.kind = "FetchWrite" -> FetchWrite_next(f)
      [] f.kind = "TryFetch" -> TryFetch_next(f)
      [] f.kind = "FetchWithout" -> FetchWithout_next(f)
      [] f.kind = "FetchWith" -> FetchWith_next(f)
      [] f.kind = "Tuple" -> Tuple_next(f, 1, <<>>, <<>>)

-----------------------------------------------------------------------------
(* ChunkIter.  Option<ChunkIter> is [some, fetch, len]. *)

NoChunk == [some |-> FALSE, fetch |-> NoFetch, len |-> 0]

ChunkIter_next(c) ==
    IF c.len = 0 THEN [item |-> NoItem, state |-> c]
    ELSE LET r == Fetch_next(c.fetch) IN
         [item |-> r.item,
          state |-> [some |-> TRUE, fetch |-> r.fetch, len |-> c.len - 1]]

-----------------------------------------------------------------------------
(* The world the queries run over.  World::query hands the archetype list   *)
(* to QueryBorrow::new; no archetype is added or changed in length while a  *)
(* query borrow is alive.  Archetype 1 is the empty-signature archetype.    *)

Sigs == <<{}, {"A"}, {"A", "B"}>>
NA == Len(Sigs)

EntityId(a, r) == (a - 1) + NA * r

InitValue(e, T) == 10 * e + (IF T = "A" THEN 1 ELSE 2)

MkArchetype(a, n) ==
    [types |-> Sigs[a],
     len |-> n,
     entities |-> [r \in 1..n |-> EntityId(a, r - 1)],
     data |-> [T \in Comps |->
                 IF T \in Sigs[a]
                 THEN [r \in 1..n |-> InitValue(EntityId(a, r - 1), T)]
                 ELSE <<>>]]

MkWorld(lens) == [a \in 1..NA |-> MkArchetype(a, lens[a])]

EntityIds(world) ==
    UNION {{world[a].entities[r] : r \in 1..world[a].len} : a \in 1..NA}

\* World::get::<T>(e): the value stored for entity e in column T
World_get(e, T) ==
    LET a == CHOOSE a \in 1..NA :
                 \E r \in 1..archetypes[a].len : archetypes[a].entities[r] = e
        r == CHOOSE r \in 1..archetypes[a].len : archetypes[a].entities[r] = e
    IN IF T \in archetypes[a].types THEN archetypes[a].data[T][r] ELSE NoVal

ZeroBorrows == [a \in 1..NA |-> [T \in Comps |-> 0]]

\* the directory of a world whose entities were all spawned with fresh ids:
\* meta (generation and liveness per id) and the free list
FreshEntities(world) ==
    [meta |-> [e \in EntityIds(world) |-> [generation |-> 0, live |-> TRUE]],
     free |-> <<>>]

\* the handle spawn returned for the live entity of this id
Entities_handle(id) == [id |-> id, generation |-> entities.meta[id].generation]

\* Entity::with_id: a handle made from the id alone.  Its generation is the
\* one of a fresh id: the handle a query yields for a freshly spawned entity
\* equals the handle spawn returned (the example in the documentation of
\* Without).
Entity_with_id(id) == [id |-> id, generation |-> 0]

-----------------------------------------------------------------------------
(* QueryBorrow *)

NoQuery == [st |-> "none", Q |-> QEntity, borrowed |-> FALSE, why |-> "", nx |-> 0]
OffQuery == [NoQuery EXCEPT !.st = "off"]

\* what a caller last read from len() and size_hint(), and after how many items
NoHint == [seen |-> FALSE, k |-> 0, len |-> 0, lower |-> 0, upper |-> 0]

NoIter ==
    [kind |-> "None", archetype_index |-> 0, iter |-> NoChunk, batch_size |-> 0,
     batch |-> 0, out |-> <<>>, done |-> FALSE, asserted |-> FALSE,
     overflow |-> FALSE, hint |-> NoHint, nones |-> 0, revived |-> FALSE]

BaseQueries ==
    { QEntity, QRead("A"), QWrite("A"), QRead("B"), QWrite("B"),
      QOption(QWrite("B")),
      QTuple(<<>>),
      QTuple(<<QEntity, QRead("A")>>),
      QTuple(<<QWrite("A"), QRead("B")>>),
      QTuple(<<QRead("A"), QWrite("A")>>),
      QTuple(<<QEntity, QWrite("A"), QOption(QRead("B"))>>),
      QTuple(<<QRead("A"), QOption(QWrite("B")), QOption(QRead("B"))>>),
      QWithout("B", QTuple(<<QEntity, QRead("A")>>)),
      QWith("B", QWrite("A")) }

\* the second borrow plays the other user of the columns
OtherQueries ==
    { QRead("A"), QRead("B"), QWrite("A"), QWrite("B"), QWith("B", QWrite("A")) }

QueriesOf(s) == IF s = 1 THEN BaseQueries ELSE OtherQueries

\* with / without are applied to the first borrow only
TransformsOf(s) == IF s = 1 THEN MaxTransforms ELSE 0

\* what slot s's borrow objects have acquired, after a step from bs to bs2
Ledger(s, bs, bs2) ==
    [held EXCEPT ![s] = [a \in 1..NA |-> [T \in Comps |->
                            held[s][a][T] + bs2[a][T] - bs[a][T]]]]

\* QueryBorrow::new
QueryBorrow_new(s, Q) ==
    /\ queries[s].st = "none"
    /\ queries' = [queries EXCEPT ![s] =
                     [st |-> "live", Q |-> Q, borrowed |-> FALSE, why |-> "", nx |-> 0]]
    /\ UNCHANGED <<archetypes, borrow_state, iters, batches, held, written, entities>>

RECURSIVE Borrow_loop_all(_, _, _)
\* a loop that borrowed from every archetype, whatever its access
Borrow_loop_all(Q, a, r) ==
    IF a > NA \/ ~r.ok THEN r
    ELSE Borrow_loop_all(Q, a + 1, Fetch_borrow(Q, a, r))

RECURSIVE Borrow_loop_write(_, _, _)
\* a loop that borrowed only from the archetypes whose access is Write
Borrow_loop_write(Q, a, r) ==
    IF a > NA \/ ~r.ok THEN r
    ELSE Borrow_loop_write(Q, a + 1,
                           IF Fetch_access(Q, archetypes[a]) >= Write
                           THEN Fetch_borrow(Q, a, r)
                           ELSE r)

RECURSIVE Borrow_loop(_, _, _)
Borrow_loop(Q, a, r) ==
    IF a > NA \/ ~r.ok THEN r
    ELSE Borrow_loop(Q, a + 1,
                     IF Fetch_access(Q, archetypes[a]) >= Read
                     THEN Fetch_borrow(Q, a, r)
                     ELSE r)

\* a borrow that did not look at the borrowed flag
QueryBorrow_borrow_unchecked(q, bs) ==
    LET r == Borrow_loop(q.Q, 1, [bs |-> bs, ok |-> TRUE]) IN
    IF r.ok
    THEN [q |-> [q EXCEPT !.borrowed = TRUE], bs |-> r.bs, ok |-> TRUE, why |-> ""]
    ELSE [q |-> q, bs |-> r.bs, ok |-> FALSE, why |-> "conflict"]

\* QueryBorrow::borrow: [q, bs, ok, why]; ok = FALSE is a panic
QueryBorrow_borrow(q, bs) ==
    IF q.borrowed
    THEN [q |-> q, bs |-> bs, ok |-> FALSE, why |-> "twice"]
    ELSE LET r == Borrow_loop(q.Q, 1, [bs |-> bs, ok |-> TRUE]) IN
         IF r.ok
         THEN [q |-> [q EXCEPT !.borrowed = TRUE], bs |-> r.bs, ok |-> TRUE, why |-> ""]
         ELSE [q |-> q, bs |-> r.bs, ok |-> FALSE, why |-> "conflict"]

\* the object a call of iter / iter_batched leaves behind: on a panic the
\* borrow object is left to the unwinding, and no iterator is returned
AfterBorrow(s, r, it) ==
    /\ borrow_state' = r.bs
    /\ queries' = [queries EXCEPT ![s] =
                     IF r.ok THEN r.q
                     ELSE [r.q EXCEPT !.st = "panicked", !.why = r.why]]
    /\ iters' = [iters EXCEPT ![s] = IF r.ok THEN it ELSE NoIter]
    /\ held' = Ledger(s, borrow_state, r.bs)
    /\ UNCHANGED <<archetypes, batches, written, entities>>

Usable(s) ==
    /\ queries[s].st = "live"
    /\ iters[s].kind = "None"
    /\ batches[s] = <<>>

\* QueryBorrow::iter
QueryBorrow_iter(s) ==
    /\ Usable(s)
    /\ AfterBorrow(s, QueryBorrow_borrow(queries[s], borrow_state),
                   [NoIter EXCEPT !.kind = "QueryIter"])

\* QueryBorrow::iter_batched
QueryBorrow_iter_batched(s, batch_size) ==
    /\ Usable(s)
    /\ AfterBorrow(s, QueryBorrow_borrow(queries[s], borrow_state),
                   [NoIter EXCEPT !.kind = "BatchedIter", !.batch_size = batch_size])

RECURSIVE Release_loop(_, _, _)
Release_loop(Q, a, bs) ==
    IF a > NA THEN bs
    ELSE Release_loop(Q, a + 1,
                      IF Fetch_access(Q, archetypes[a]) >= Read
                      THEN Fetch_release(Q, a, bs)
                      ELSE bs)

\* Drop for QueryBorrow: the borrow state it leaves
QueryBorrow_drop(q, bs) ==
    IF q.borrowed THEN Release_loop(q.Q, 1, bs) ELSE bs

\* a transform that left the consumed borrow's flag set
QueryBorrow_transform_flag(self, R, bs) ==
    LET x == [self EXCEPT !.Q = R, !.nx = @ + 1]
    IN [x |-> x, bs |-> QueryBorrow_drop(self, bs)]

\* QueryBorrow::transform::<R>: [x, bs]; x is the returned borrow, bs the
\* borrow state after the consumed self went out of scope
QueryBorrow_transform(self, R, bs) ==
    LET x == [self EXCEPT !.Q = R, !.nx = @ + 1]
        self2 == [self EXCEPT !.borrowed = FALSE]
    IN [x |-> x, bs |-> QueryBorrow_drop(self2, bs)]

Transformed(s, R) ==
    /\ Usable(s)
    /\ queries[s].nx < TransformsOf(s)
    /\ LET r == QueryBorrow_transform(queries[s], R, borrow_state) IN
         /\ queries' = [queries EXCEPT ![s] = r.x]
         /\ borrow_state' = r.bs
         /\ held' = Ledger(s, borrow_state, r.bs)
    /\ UNCHANGED <<archetypes, iters, batches, written, entities>>

\* QueryBorrow::with::<T>
QueryBorrow_with(s, T) == Transformed(s, QWith(T, queries[s].Q))

\* QueryBorrow::without::<T>
QueryBorrow_without(s, T) == Transformed(s, QWithout(T, queries[s].Q))

\* the borrow object goes out of scope, or is dropped by the unwinding
Drop_QueryBorrow(s) ==
    /\ queries[s].st \in {"live", "panicked"}
    /\ iters[s].kind = "None"
    /\ batches[s] = <<>>
    /\ LET bs == QueryBorrow_drop(queries[s], borrow_state) IN
         /\ borrow_state' = bs
         /\ held' = Ledger(s, borrow_state, bs)
    /\ queries' = [queries EXCEPT ![s] =
                     [NoQuery EXCEPT !.st = "dropped", !.why = queries[s].why]]
    /\ UNCHANGED <<archetypes, iters, batches, written, entities>>

\* the end of lifetime 'q: the iterator, its batches and the items go away
Drop_iterators(s) ==
    /\ queries[s].st = "live"
    /\ iters[s].kind # "None"
    /\ iters' = [iters EXCEPT ![s] = NoIter]
    /\ batches' = [batches EXCEPT ![s] = <<>>]
    /\ UNCHANGED <<archetypes, borrow_state, queries, held, written, entities>>

-----------------------------------------------------------------------------
(* QueryIter *)

RECURSIVE QueryIter_loop_restart(_, _)
\* a loop that goes back to the first archetype when it returns None
QueryIter_loop_restart(Q, it) ==
    IF ~it.iter.some
    THEN IF it.archetype_index >= NA
         THEN [ret |-> NoItem, it |-> [it EXCEPT !.archetype_index = 0]]
         ELSE LET a == it.archetype_index + 1
                  fetch == Fetch_get(Q, a, 0)
              IN QueryIter_loop_restart(Q,
                   [it EXCEPT !.archetype_index = @ + 1,
                              !.iter = IF fetch = NoFetch THEN NoChunk
                                       ELSE [some |-> TRUE, fetch |-> fetch,
                                             len |-> Archetype_len(archetypes[a])]])
    ELSE LET r == ChunkIter_next(it.iter) IN
         IF r.item = NoItem
         THEN QueryIter_loop_restart(Q, [it EXCEPT !.iter = NoChunk])
         ELSE [ret |-> r.item, it |-> [it EXCEPT !.iter = r.state]]

RECURSIVE QueryIter_loop(_, _)
\* the loop of QueryIter::next: [ret, it]; ret = NoItem is Option::None
QueryIter_loop(Q, it) ==
    IF ~it.iter.some
    THEN IF it.archetype_index >= NA
         THEN [ret |-> NoItem, it |-> it]
         ELSE LET a == it.archetype_index + 1
                  fetch == Fetch_get(Q, a, 0)
              IN QueryIter_loop(Q,
                   [it EXCEPT !.archetype_index = @ + 1,
                              !.iter = IF fetch = NoFetch THEN NoChunk
                                       ELSE [some |-> TRUE, fetch |-> fetch,
                                             len |-> Archetype_len(archetypes[a])]])
    ELSE LET r == ChunkIter_next(it.iter) IN
         IF r.item = NoItem
         THEN QueryIter_loop(Q, [it EXCEPT !.iter = NoChunk])
         ELSE [ret |-> r.item, it |-> [it EXCEPT !.iter = r.state]]

\* QueryIter::next.  `done` records that a call has returned None and
\* `revived` that a call after that returned an item; a caller that counts
\* keeps in `nones` how many calls have returned None, up to MaxNones.
QueryIter_call(s, counted) ==
    /\ iters[s].kind = "QueryIter"
    /\ LET r == QueryIter_loop(queries[s].Q, iters[s]) IN
         iters' = [iters EXCEPT ![s] =
                     IF r.ret = NoItem
                     THEN [r.it EXCEPT !.done = TRUE,
                                       !.nones = IF counted
                                                 THEN Min(@ + 1, MaxNones) ELSE @]
                     ELSE [r.it EXCEPT !.out = Append(@, r.ret),
                                       !.revived = @ \/ iters[s].done]]
    /\ UNCHANGED <<archetypes, borrow_state, queries, batches, held, written, entities>>

QueryIter_next(s) == QueryIter_call(s, FALSE)

QueryIter_next_counted(s) == QueryIter_call(s, TRUE)

RECURSIVE Len_sum_all(_, _)
\* a sum without the filter on access
Len_sum_all(Q, a) ==
    IF a > NA THEN 0
    ELSE Archetype_len(archetypes[a]) + Len_sum_all(Q, a + 1)

RECURSIVE Len_sum(_, _)
\* the sum of x.len() over the archetypes from a on that pass the filter
Len_sum(Q, a) ==
    IF a > NA THEN 0
    ELSE (IF Fetch_access(Q, archetypes[a]) # Skip
          THEN Archetype_len(archetypes[a]) ELSE 0) + Len_sum(Q, a + 1)

\* ExactSizeIterator::len for QueryIter: it reads the archetype list only
QueryIter_len(Q, it) == Len_sum(Q, 1)

\* QueryIter::size_hint: (n, Some(n))
QueryIter_size_hint(Q, it) ==
    LET n == QueryIter_len(Q, it) IN <<n, n>>

\* a caller reads len() and size_hint() of its iterator, once, at any point
Read_len(s) ==
    /\ iters[s].kind = "QueryIter"
    /\ ~iters[s].hint.seen
    /\ iters' = [iters EXCEPT ![s].hint =
                   [seen |-> TRUE, k |-> Len(iters[s].out),
                    len |-> QueryIter_len(queries[s].Q, iters[s]),
                    lower |-> QueryIter_size_hint(queries[s].Q, iters[s])[1],
                    upper |-> QueryIter_size_hint(queries[s].Q, iters[s])[2]]]
    /\ UNCHANGED <<archetypes, borrow_state, queries, batches, held, written, entities>>

-----------------------------------------------------------------------------
(* BatchedIter and Batch *)

\* u32 arithmetic: the model scales the 32-bit word down to WordBits bits.
\* A product or an increment that does not fit wraps modulo 2^32 in a release
\* build and panics in a build with overflow checks; `overflow` records that
\* it happened.
U32 == 2 ^ WordBits

\* more batches than any world of MaxLen rows per archetype gives
MaxBatches == MaxLen * NA + MaxEmptyBatches

RECURSIVE BatchedIter_loop(_, _)
\* the loop of BatchedIter::next: [ret, it, offset, index]; ret = NoChunk is
\* Option::None; offset and index are the row offset and the batch index of
\* the batch returned
BatchedIter_loop(Q, it) ==
    IF it.archetype_index >= NA
    THEN [ret |-> NoChunk, it |-> it, offset |-> 0, index |-> 0]
    ELSE LET a == it.archetype_index + 1
             len == Archetype_len(archetypes[a])
             offset == (it.batch_size * it.batch) % U32
             it1 == [it EXCEPT !.overflow = @ \/ it.batch_size * it.batch >= U32]
         IN IF offset >= len
            THEN BatchedIter_loop(Q, [it1 EXCEPT !.archetype_index = @ + 1,
                                                 !.batch = 0])
            ELSE LET fetch == Fetch_get(Q, a, offset) IN
                 IF fetch # NoFetch
                 THEN [ret |-> [some |-> TRUE, fetch |-> fetch,
                                len |-> Min(it.batch_size, len - offset)],
                       it |-> [it1 EXCEPT !.batch = (@ + 1) % U32,
                                          !.overflow = @ \/ it.batch + 1 >= U32],
                       offset |-> offset, index |-> it.batch]
                 ELSE BatchedIter_loop(Q,
                        [it1 EXCEPT !.archetype_index = @ + 1,
                                    !.asserted = @ \/ it.batch # 0])

EmptyBatches(s) == Cardinality({i \in 1..Len(batches[s]) : batches[s][i].len = 0})

BusyBatches(s) ==
    Cardinality({i \in 1..Len(batches[s]) : batches[s][i].state.len > 0})

\* BatchedIter::next.  Each batch is kept with the archetype, the row offset
\* and the batch index it was made for.  The first result that does not fit
\* in the word panics when the build checks overflow (the unwinding drops
\* the iterator and its batches) and wraps otherwise.
BatchedIter_call(s, counted) ==
    /\ iters[s].kind = "BatchedIter"
    /\ EmptyBatches(s) < MaxEmptyBatches
    /\ BusyBatches(s) < MaxWorkers
    /\ Len(batches[s]) < MaxBatches
    /\ \E checked \in BOOLEAN :
       LET r == BatchedIter_loop(queries[s].Q, iters[s])
           panic == checked /\ r.it.overflow /\ ~iters[s].overflow
       IN
         /\ iters' = [iters EXCEPT ![s] =
                        IF panic THEN NoIter
                        ELSE IF r.ret = NoChunk
                        THEN [r.it EXCEPT !.done = TRUE,
                                          !.nones = IF counted
                                                    THEN Min(@ + 1, MaxNones)
                                                    ELSE @]
                        ELSE [r.it EXCEPT !.revived = @ \/ iters[s].done]]
         /\ batches' = [batches EXCEPT ![s] =
                          IF panic THEN <<>>
                          ELSE IF r.ret = NoChunk THEN @
                          ELSE Append(@, [state |-> r.ret, len |-> r.ret.len,
                                          out |-> <<>>,
                                          a |-> r.it.archetype_index + 1,
                                          offset |-> r.offset,
                                          index |-> r.index,
                                          nones |-> 0, revived |-> FALSE])]
         /\ queries' = [queries EXCEPT ![s] =
                          IF panic THEN [@ EXCEPT !.st = "panicked", !.why = "overflow"]
                          ELSE @]
    /\ UNCHANGED <<archetypes, borrow_state, held, written, entities>>

BatchedIter_next(s) == BatchedIter_call(s, FALSE)

BatchedIter_next_counted(s) == BatchedIter_call(s, TRUE)

\* BatchedIter::next by a caller that drops each batch as soon as it has it
BatchedIter_next_dropped(s) ==
    /\ iters[s].kind = "BatchedIter"
    /\ batches[s] = <<>>
    /\ \E checked \in BOOLEAN :
       LET r == BatchedIter_loop(queries[s].Q, iters[s])
           panic == checked /\ r.it.overflow /\ ~iters[s].overflow
       IN
         /\ iters' = [iters EXCEPT ![s] =
                        IF panic THEN NoIter
                        ELSE IF r.ret = NoChunk THEN [r.it EXCEPT !.done = TRUE]
                        ELSE [r.it EXCEPT !.revived = @ \/ iters[s].done]]
         /\ queries' = [queries EXCEPT ![s] =
                          IF panic THEN [@ EXCEPT !.st = "panicked", !.why = "overflow"]
                          ELSE @]
    /\ UNCHANGED <<archetypes, borrow_state, batches, held, written, entities>>

\* the batches of which a call of next has returned None
EndedBatches(s) == {i \in 1..Len(batches[s]) : batches[s][i].nones > 0}

\* Batch::next on the i-th batch the BatchedIter yielded.  A caller that
\* counts keeps in the batch's `nones` how many calls have returned None, up
\* to MaxNones, and does so for at most MaxEnded batches; `revived` records
\* that a call after a counted None returned an item.
Batch_call(s, i, counted) ==
    /\ i \in 1..Len(batches[s])
    /\ LET r == ChunkIter_next(batches[s][i].state) IN
         /\ (counted /\ r.item = NoItem) =>
              \/ i \in EndedBatches(s)
              \/ Cardinality(EndedBatches(s)) < MaxEnded
         /\ batches' = [batches EXCEPT ![s][i] =
                          IF r.item = NoItem
                          THEN [@ EXCEPT !.nones = IF counted
                                                   THEN Min(@ + 1, MaxNones)
                                                   ELSE @]
                          ELSE [@ EXCEPT !.state = r.state,
                                         !.out = Append(@, r.item),
                                         !.revived = @ \/ batches[s][i].nones > 0]]
    /\ UNCHANGED <<archetypes, borrow_state, queries, iters, held, written, entities>>

Batch_next(s, i) == Batch_call(s, i, FALSE)

Batch_next_counted(s, i) == Batch_call(s, i, TRUE)

-----------------------------------------------------------------------------
(* Use of the items: a store through a yielded exclusive reference *)

RECURSIVE Leaves(_, _)
Leaves(item, kind) ==
    IF item.kind = kind THEN {item}
    ELSE UNION {Leaves(item.sub[i], kind) : i \in 1..Len(item.sub)}

\* *x = v for a `&mut T` x of the item yielded last, as in the body of a for loop
Store(s, v) ==
    /\ iters[s].kind = "QueryIter"
    /\ iters[s].out # <<>>
    /\ LET item == iters[s].out[Len(iters[s].out)] IN
       \E m \in Leaves(item, "Mut") :
         /\ m.v < Archetype_len(archetypes[m.a])
         /\ archetypes[m.a].data[m.t][m.v + 1] # v
         /\ archetypes' = [archetypes EXCEPT ![m.a].data[m.t][m.v + 1] = v]
         /\ written' = [e \in DOMAIN written |->
                          IF \E x \in Leaves(item, "Entity") : x.v = e
                          THEN [written[e] EXCEPT ![m.t] = v]
                          ELSE written[e]]
    /\ UNCHANGED <<borrow_state, queries, iters, batches, held, entities>>

-----------------------------------------------------------------------------
(* Specifications *)

InitWith(lens, slots) ==
    /\ archetypes = MkWorld(lens)
    /\ borrow_state = ZeroBorrows
    /\ queries = [s \in Slots |-> IF s \in slots THEN NoQuery ELSE OffQuery]
    /\ iters = [s \in Slots |-> NoIter]
    /\ batches = [s \in Slots |-> <<>>]
    /\ held = [s \in Slots |-> ZeroBorrows]
    /\ written = [e \in EntityIds(MkWorld(lens)) |-> [T \in Comps |-> NoVal]]
    /\ entities = FreshEntities(MkWorld(lens))

\* two query borrows over one world
Init == InitWith([a \in 1..NA |-> 1], Slots)

\* one query borrow over every world of at most MaxLen rows per archetype
InitIter == \E lens \in [1..NA -> 0..MaxLen] : InitWith(lens, {1})

Lifecycle(s) ==
    \/ \E Q \in QueriesOf(s) : QueryBorrow_new(s, Q)
    \/ QueryBorrow_iter(s)
    \/ \E n \in 0..MaxBatch : QueryBorrow_iter_batched(s, n)
    \/ \E T \in Comps : QueryBorrow_with(s, T)
    \/ \E T \in Comps : QueryBorrow_without(s, T)
    \/ Drop_iterators(s)
    \/ Drop_QueryBorrow(s)

Iteration(s) ==
    \/ QueryIter_next(s)
    \/ Read_len(s)
    \/ BatchedIter_next(s)
    \/ \E i \in 1..MaxBatches : Batch_next(s, i)
    \/ \E v \in WriteVals : Store(s, v)

Next == \E s \in Slots : Lifecycle(s)

NextIter == \E s \in Slots : Lifecycle(s) \/ Iteration(s)

\* one archetype of more than half the word's range of rows, iterated in
\* batches of half the word's range
WrapLen == U32 \div 2 + 1
WrapBatch == U32 \div 2
WrapQueries == {QEntity, QTuple(<<QEntity, QWrite("A")>>)}

InitWrap == InitWith([a \in 1..NA |-> IF a = NA THEN WrapLen ELSE 0], {1})

NextWrap ==
    \E s \in Slots :
        \/ \E Q \in WrapQueries : QueryBorrow_new(s, Q)
        \/ QueryBorrow_iter_batched(s, WrapBatch)
        \/ BatchedIter_next(s)
        \/ \E i \in 1..MaxBatches : Batch_next(s, i)
        \/ Drop_iterators(s)
        \/ Drop_QueryBorrow(s)

Spec == Init /\ [][Next]_vars

SpecIter == InitIter /\ [][NextIter]_vars

SpecWrap == InitWrap /\ [][NextWrap]_vars

\* a caller that goes on calling next on an iterator or a batch that has
\* returned None, and counts the Nones
FusedQueries ==
    { QTuple(<<QEntity, QWrite("A"), QOption(QRead("B"))>>),
      QWith("B", QRead("A")) }

NextFused ==
    \E s \in Slots :
        \/ \E Q \in FusedQueries : QueryBorrow_new(s, Q)
        \/ QueryBorrow_iter(s)
        \/ \E n \in 0..MaxBatch : QueryBorrow_iter_batched(s, n)
        \/ QueryIter_next_counted(s)
        \/ BatchedIter_next_counted(s)
        \/ \E i \in 1..MaxBatches : Batch_next_counted(s, i)
        \/ Drop_iterators(s)
        \/ Drop_QueryBorrow(s)

SpecFused == InitIter /\ [][NextFused]_vars

\* a caller that goes on calling BatchedIter::next: `for batch in iter {}`
NextLive ==
    \E s \in Slots :
        \/ \E Q \in QueriesOf(s) : QueryBorrow_new(s, Q)
        \/ \E n \in 0..MaxBatch : QueryBorrow_iter_batched(s, n)
        \/ BatchedIter_next_dropped(s)

SpecLive ==
    /\ InitIter
    /\ [][NextLive]_vars
    /\ WF_vars(\E s \in Slots : BatchedIter_next_dropped(s))

-----------------------------------------------------------------------------
(* Spawn and despawn.  They change the world's structure, so they happen    *)
(* only while no query borrow exists.                                       *)

NoBorrowExists == \A s \in Slots : queries[s].st \in {"none", "off"}

\* World::spawn of a bundle of signature Sigs[a]: the id is the top of the
\* free list, with the generation stored for it, or else a fresh id
World_spawn(a) ==
    /\ NoBorrowExists
    /\ archetypes[a].len < MaxLen
    /\ entities.free # <<>> \/ Cardinality(DOMAIN entities.meta) < MaxIds
    /\ LET free == entities.free
           reuse == free # <<>>
           id == IF reuse THEN free[Len(free)] ELSE Cardinality(DOMAIN entities.meta)
           generation == IF reuse THEN entities.meta[id].generation ELSE 0
           arch == archetypes[a]
       IN /\ entities' =
               [entities EXCEPT
                  !.meta = [e \in DOMAIN @ \cup {id} |->
                              IF e = id
                              THEN [generation |-> generation, live |-> TRUE]
                              ELSE @[e]],
                  !.free = IF reuse THEN SubSeq(@, 1, Len(@) - 1) ELSE @]
          /\ archetypes' =
               [archetypes EXCEPT ![a] =
                  [arch EXCEPT
                     !.len = @ + 1,
                     !.entities = Append(@, id),
                     !.data = [T \in Comps |->
                                 IF T \in arch.types
                                 THEN Append(arch.data[T], InitValue(id, T))
                                 ELSE <<>>]]]
    /\ UNCHANGED <<borrow_state, queries, iters, batches, held, written>>

\* swap-remove of row r (counted from 1) of a sequence of n rows
SwapRemove(seq, r) ==
    LET n == Len(seq) IN
    [i \in 1..(n - 1) |-> IF i = r THEN seq[n] ELSE seq[i]]

\* World::despawn of the live entity of this id: its row is swap-removed,
\* the stored generation is incremented and the id is pushed on the free list
World_despawn(id) ==
    /\ NoBorrowExists
    /\ id \in DOMAIN entities.meta
    /\ entities.meta[id].live
    /\ entities.meta[id].generation < MaxGeneration
    /\ \E a \in 1..NA : \E r \in 1..archetypes[a].len :
         /\ archetypes[a].entities[r] = id
         /\ archetypes' =
              [archetypes EXCEPT ![a] =
                 [@ EXCEPT
                    !.len = @ - 1,
                    !.entities = SwapRemove(@, r),
                    !.data = [T \in Comps |->
                                IF T \in archetypes[a].types
                                THEN SwapRemove(archetypes[a].data[T], r)
                                ELSE <<>>]]]
    /\ entities' = [entities EXCEPT
                      !.meta[id] = [generation |-> @.generation + 1, live |-> FALSE],
                      !.free = Append(@, id)]
    /\ UNCHANGED <<borrow_state, queries, iters, batches, held, written>>

SpawnQueries == {QEntity, QTuple(<<QEntity, QRead("A")>>)}

\* one query borrow over a world that starts empty
InitSpawn == InitWith([a \in 1..NA |-> 0], {1})

NextSpawn ==
    \/ \E a \in 1..NA : World_spawn(a)
    \/ \E id \in 0..(MaxIds - 1) : World_despawn(id)
    \/ \E s \in Slots :
         \/ \E Q \in SpawnQueries : QueryBorrow_new(s, Q)
         \/ QueryBorrow_iter(s)
         \/ QueryIter_next(s)
         \/ Drop_iterators(s)
         \/ Drop_QueryBorrow(s)

SpecSpawn == InitSpawn /\ [][NextSpawn]_vars

-----------------------------------------------------------------------------
(* Vocabulary of the properties *)

RECURSIVE Requests(_, _, _)
RECURSIVE SumRequests(_, _, _, _)
\* how many times query Q asks for column T in the given way ("Read", "Write")
Requests(Q, kind, T) ==
    IF Q.kind \in {"Entity", "Read", "Write"}
    THEN (IF Q.kind = kind /\ Q.t = T THEN 1 ELSE 0)
    ELSE SumRequests(Q.sub, 1, kind, T)
SumRequests(qs, i, kind, T) ==
    IF i > Len(qs) THEN 0
    ELSE Requests(qs[i], kind, T) + SumRequests(qs, i + 1, kind, T)

\* slot s has an object whose borrowed flag is set
Holding(s) == queries[s].st \in {"live", "panicked"} /\ queries[s].borrowed

\* the requests for column T of archetype a that slot s holds a borrow for
HeldRequests(s, a, kind, T) ==
    IF /\ Holding(s)
       /\ T \in archetypes[a].types
       /\ Fetch_access(queries[s].Q, archetypes[a]) >= Read
    THEN Requests(queries[s].Q, kind, T)
    ELSE 0

AllHeld(a, kind, T) == HeldRequests(1, a, kind, T) + HeldRequests(2, a, kind, T)

\* slot s takes the step of a call of iter or iter_batched
IterCall(s) ==
    \/ QueryBorrow_iter(s)
    \/ \E n \in 0..MaxBatch : QueryBorrow_iter_batched(s, n)

\* a borrow of Q's columns from borrow state bs would break the reader /
\* writer rule on some archetype Q borrows from
Conflicts(Q, bs) ==
    \E a \in 1..NA, T \in Comps :
        /\ Fetch_access(Q, archetypes[a]) >= Read
        /\ T \in archetypes[a].types
        /\ LET nr == Requests(Q, "Read", T)
               nw == Requests(Q, "Write", T)
           IN \/ nr > 0 /\ bs[a][T] < 0
              \/ nw > 0 /\ bs[a][T] # 0
              \/ nw > 0 /\ nr + nw > 1

-----------------------------------------------------------------------------
(* C1: in every reachable state every column's borrow state is idle, or    *)
(* held by N >= 1 shared readers and no writer, or held by exactly one      *)
(* writer and no reader: the counter never falls below -1, at most one      *)
(* query borrow holds a column exclusively and then the counter is -1 and   *)
(* nobody holds it shared, and a column held shared by n requests has a     *)
(* counter of at least n.                                                   *)
C1_BorrowXor ==
    \A a \in 1..NA, T \in Comps :
        LET c == borrow_state[a][T]
            w == AllHeld(a, "Write", T)
            r == AllHeld(a, "Read", T)
        IN /\ c >= -1
           /\ T \notin archetypes[a].types => c = 0
           /\ w <= 1
           /\ w = 1 => c = -1 /\ r = 0
           /\ r >= 1 => c >= r

\* two borrows at work: one column has a writer, another two readers
C1_Witness ==
    /\ Holding(1) /\ Holding(2)
    /\ \E a \in 1..NA, T \in Comps : borrow_state[a][T] = -1
    /\ \E a \in 1..NA, T \in Comps : borrow_state[a][T] = 2

(* C2: once a query borrow that was iterated at most once, without a        *)
(* failure, and every borrow derived from it by with / without is           *)
(* destroyed, everything it acquired is released again.                     *)
C2_AllReleased ==
    \A s \in Slots :
        queries[s].st = "dropped" /\ queries[s].why = "" => held[s] = ZeroBorrows

(* C3: iter or iter_batched on a borrow whose borrowed flag is set panics,  *)
(* returns no iterator, acquires no column borrow and changes no counter.   *)
C3_SecondIterPanics ==
    [][\A s \in Slots :
          queries[s].borrowed /\ IterCall(s) =>
              /\ queries'[s].st = "panicked"
              /\ queries'[s].why = "twice"
              /\ iters'[s] = NoIter
              /\ borrow_state' = borrow_state
              /\ held' = held]_vars

\* a borrow made by with / without from an iterated borrow was iterated again
C3_Witness ==
    \E s \in Slots :
        /\ queries[s].st = "panicked"
        /\ queries[s].why = "twice"
        /\ queries[s].nx = 1

(* C4: a call of iter / iter_batched whose borrows would break the reader / *)
(* writer rule on a column panics and returns no iterator, so no item is    *)
(* ever yielded; a call that returns an iterator holds every column it      *)
(* asked for in the way it asked.                                           *)
C4_ConflictPanics ==
    [][\A s \in Slots :
          ~queries[s].borrowed /\ IterCall(s) =>
              IF Conflicts(queries[s].Q, borrow_state)
              THEN /\ queries'[s].st = "panicked"
                   /\ queries'[s].why = "conflict"
                   /\ iters'[s] = NoIter
                   /\ batches'[s] = <<>>
              ELSE queries'[s].st = "live"]_vars

\* one query asked for the same column exclusively and a second time
C4_Witness ==
    /\ queries[1].st = "panicked"
    /\ queries[1].why = "conflict"
    /\ Requests(queries[1].Q, "Write", "A") = 1
    /\ Requests(queries[1].Q, "Read", "A") = 1
    /\ queries[2].st = "none"

(* C5: after a borrow whose iter / iter_batched failed on a conflicting     *)
(* column is destroyed, the borrows it acquired before the failure are      *)
(* released.                                                                *)
C5_FailureReleases ==
    \A s \in Slots :
        queries[s].st = "dropped" /\ queries[s].why = "conflict" =>
            held[s] = ZeroBorrows

\* the counter of column T of archetype a once Q's borrow of it succeeded
Borrowed(bs, Q, a, T) ==
    IF T \notin archetypes[a].types THEN bs[a][T]
    ELSE IF Requests(Q, "Write", T) > 0 THEN -1
    ELSE bs[a][T] + Requests(Q, "Read", T)

TransformCall(s) ==
    \E T \in Comps : QueryBorrow_with(s, T) \/ QueryBorrow_without(s, T)

(* C6: constructing a query borrow, and with / without on a borrow not yet  *)
(* iterated, change no counter and leave borrowed = false, and a borrow not *)
(* yet iterated has acquired nothing; the first iter / iter_batched changes *)
(* no counter of an archetype that is skipped or whose access is Iterate,   *)
(* and when it returns it has borrowed the requested columns of every       *)
(* archetype whose access is Read or Write.                                 *)
C6_BorrowsTakenByFirstIter ==
    [][\A s \in Slots :
          /\ (\E Q \in QueriesOf(s) : QueryBorrow_new(s, Q)) =>
                 borrow_state' = borrow_state /\ ~queries'[s].borrowed
          /\ ~queries[s].borrowed /\ TransformCall(s) =>
                 borrow_state' = borrow_state /\ ~queries'[s].borrowed
          /\ queries[s].st = "live" /\ ~queries[s].borrowed =>
                 held[s] = ZeroBorrows
          /\ ~queries[s].borrowed /\ IterCall(s) =>
                 \A a \in 1..NA, T \in Comps :
                     IF Fetch_access(queries[s].Q, archetypes[a]) < Read
                     THEN borrow_state'[a][T] = borrow_state[a][T]
                     ELSE queries'[s].borrowed =>
                              borrow_state'[a][T] =
                                  Borrowed(borrow_state, queries[s].Q, a, T)]_vars

\* an iterated borrow with a skipped, an Iterate and a borrowed archetype
C6_Witness ==
    /\ queries[1].borrowed
    /\ iters[1].kind # "None"
    /\ \E a \in 1..NA : Fetch_access(queries[1].Q, archetypes[a]) = Skip
    /\ \E a \in 1..NA : /\ Fetch_access(queries[1].Q, archetypes[a]) = Iterate
                        /\ held[1][a] = ZeroBorrows[a]
    /\ \E a \in 1..NA : /\ Fetch_access(queries[1].Q, archetypes[a]) >= Read
                        /\ held[1][a] # ZeroBorrows[a]

(* C7: with / without change no counter and release nothing, and the        *)
(* borrow they return is over the same archetypes with the same borrowed    *)
(* flag as the borrow they consumed.                                        *)
C7_TransformKeepsBorrows ==
    [][\A s \in Slots :
          TransformCall(s) =>
              /\ borrow_state' = borrow_state
              /\ held' = held
              /\ archetypes' = archetypes
              /\ queries'[s].st = "live"
              /\ queries'[s].borrowed = queries[s].borrowed]_vars

\* with::<B>() was applied to a borrow that holds column A of the archetype
\* without B
C7_Witness ==
    /\ queries[1].st = "live"
    /\ queries[1].borrowed
    /\ queries[1].Q.kind = "With"
    /\ queries[1].Q.t = "B"
    /\ held[1][2]["A"] = 1

(* C8: a With<T, Q> or Without<T, Q> borrow whose Q does not request T      *)
(* never acquires column T: its iter / iter_batched leaves the counter of T *)
(* in every archetype as it was, and the borrow holds nothing of T.         *)
C8_WithTakesNoBorrow ==
    [][\A s \in Slots :
          LET Q == queries[s].Q IN
          /\ Q.kind \in {"With", "Without"}
          /\ Requests(Q, "Read", Q.t) + Requests(Q, "Write", Q.t) = 0
          => /\ \A a \in 1..NA : held[s][a][Q.t] = 0
             /\ IterCall(s) =>
                    \A a \in 1..NA : borrow_state'[a][Q.t] = borrow_state[a][Q.t]]_vars

\* With<B, &A> is iterated while the other borrow holds B exclusively
C8_Witness ==
    /\ queries[1].Q = QWith("B", QRead("A"))
    /\ Holding(1)
    /\ held[1][3]["A"] = 1
    /\ Holding(2)
    /\ borrow_state[3]["B"] = -1


-----------------------------------------------------------------------------
(* What an iteration is to yield *)

RECURSIVE ItemAt(_, _, _)
\* the item of query Q for row r of archetype a: the entity stored at the
\* row, references to the row's cell of each requested column
ItemAt(Q, a, r) ==
    CASE Q.kind = "Entity" ->
           [kind |-> "Entity", a |-> a, t |-> "-",
            v |-> archetypes[a].entities[r + 1], sub |-> <<>>]
      [] Q.kind = "Read" ->
           [kind |-> "Ref", a |-> a, t |-> Q.t, v |-> r, sub |-> <<>>]
      [] Q.kind = "Write" ->
           [kind |-> "Mut", a |-> a, t |-> Q.t, v |-> r, sub |-> <<>>]
      [] Q.kind = "Option" ->
           IF Fetch_access(Q.sub[1], archetypes[a]) = Skip
           THEN [kind |-> "OptNone", a |-> a, t |-> "-", v |-> 0, sub |-> <<>>]
           ELSE [kind |-> "OptSome", a |-> a, t |-> "-", v |-> 0,
                 sub |-> <<ItemAt(Q.sub[1], a, r)>>]
      [] Q.kind \in {"With", "Without"} -> ItemAt(Q.sub[1], a, r)
      [] Q.kind = "Tuple" ->
           [kind |-> "Tuple", a |-> a, t |-> "-", v |-> 0,
            sub |-> [i \in 1..Len(Q.sub) |-> ItemAt(Q.sub[i], a, r)]]

\* the archetypes Q does not skip
Matching(Q) == {a \in 1..NA : Fetch_access(Q, archetypes[a]) # Skip}

\* how many rows of the archetypes Q does not skip carry item x
Expected(Q, x) ==
    Cardinality({ar \in UNION {{<<a, r>> : r \in 0..(archetypes[a].len - 1)} :
                                 a \in Matching(Q)} :
                   ItemAt(Q, ar[1], ar[2]) = x})

Count(seq, x) == Cardinality({i \in 1..Len(seq) : seq[i] = x})

Range(seq) == {seq[i] : i \in 1..Len(seq)}

\* the cell a yielded reference designates holds a stored value of its row
InBounds(item) ==
    \A m \in Leaves(item, "Ref") \cup Leaves(item, "Mut") :
        /\ m.t \in archetypes[m.a].types
        /\ m.v < archetypes[m.a].len

(* C9: a complete iteration of query::<Q>().iter() yields exactly one item  *)
(* for each row of each archetype Q does not skip and none for a skipped    *)
(* archetype (while it runs, never more than that); each item refers to the *)
(* values stored at its row, and a value stored through an exclusive        *)
(* reference of an item is the value the world later reads for the entity   *)
(* of that item.                                                            *)
C9_IterYieldsMatchingRows ==
    /\ \A s \in Slots :
         iters[s].kind = "QueryIter" =>
           LET Q == queries[s].Q
               out == iters[s].out
           IN /\ \A x \in Range(out) :
                   /\ Count(out, x) <= Expected(Q, x)
                   /\ InBounds(x)
              /\ iters[s].done =>
                   /\ \A x \in Range(out) : Count(out, x) = Expected(Q, x)
                   /\ \A a \in Matching(Q) : \A r \in 0..(archetypes[a].len - 1) :
                        ItemAt(Q, a, r) \in Range(out)
    /\ \A e \in DOMAIN written : \A T \in Comps :
         written[e][T] # NoVal => World_get(e, T) = written[e][T]

\* a finished iteration over (Entity, &mut A, Option<&B>) that skipped a
\* populated archetype, yielded rows of two archetypes and stored through
\* the exclusive reference of a row
C9_Witness ==
    /\ iters[1].kind = "QueryIter"
    /\ iters[1].done
    /\ queries[1].Q = QTuple(<<QEntity, QWrite("A"), QOption(QRead("B"))>>)
    /\ archetypes[1].len > 0
    /\ Len(iters[1].out) >= 3
    /\ \E i, j \in 1..Len(iters[1].out) : iters[1].out[i].a # iters[1].out[j].a
    /\ \E e \in DOMAIN written : written[e]["A"] \in WriteVals


RECURSIVE IterFrom(_, _, _)
IterFrom(Q, it, acc) ==
    LET r == QueryIter_loop(Q, it) IN
    IF r.ret = NoItem THEN acc ELSE IterFrom(Q, r.it, Append(acc, r.ret))

\* the sequence iter() yields over the same archetypes
IterAll(Q) == IterFrom(Q, [NoIter EXCEPT !.kind = "QueryIter"], <<>>)

RECURSIVE BatchStart(_, _)
\* the number of items of the batches yielded before the i-th
BatchStart(bs, i) == IF i = 1 THEN 0 ELSE BatchStart(bs, i - 1) + bs[i - 1].len

(* C10: for every batch size n >= 1 the items of the batches yielded by     *)
(* iter_batched(n), concatenated in the order the batches were yielded, are *)
(* the sequence of iter(): every batch is the next stretch of that          *)
(* sequence, BatchedIter::next returns rather than panics, and when it has  *)
(* returned None the batches cover the sequence.                            *)
C10_BatchPartition ==
    \A s \in Slots :
      /\ queries[s].why # "overflow"
      /\ (iters[s].kind = "BatchedIter" /\ iters[s].batch_size >= 1) =>
           LET all == IterAll(queries[s].Q)
               bs == batches[s]
           IN /\ \A i \in 1..Len(bs) :
                   /\ BatchStart(bs, i) + bs[i].len <= Len(all)
                   /\ \A k \in 1..Len(bs[i].out) :
                        bs[i].out[k] = all[BatchStart(bs, i) + k]
              /\ iters[s].done => BatchStart(bs, Len(bs) + 1) = Len(all)


-----------------------------------------------------------------------------
(* Batches *)

\* the rows a batch was made for, and the rows it has yielded so far
BatchRows(b) == {<<b.a, r>> : r \in b.offset..(b.offset + b.len - 1)}

YieldedRows(b) == {<<b.a, b.offset + k - 1>> : k \in 1..Len(b.out)}

\* every row of every archetype Q does not skip
AllRows(Q) ==
    UNION {{<<a, r>> : r \in 0..(archetypes[a].len - 1)} : a \in Matching(Q)}

(* C11: however the batches of one iter_batched call are advanced, the row  *)
(* ranges of distinct batches are pairwise disjoint, every item a batch     *)
(* yields is the item of a row of its own range (so no row, and no          *)
(* exclusive reference to a row, is yielded by two batches), and when       *)
(* BatchedIter::next has returned None the ranges together are every row of *)
(* every archetype the query does not skip.                                 *)
C11_BatchesDisjoint ==
    \A s \in Slots :
      iters[s].kind = "BatchedIter" =>
        LET bs == batches[s]
            Q == queries[s].Q
        IN /\ \A i, j \in 1..Len(bs) :
                i # j => BatchRows(bs[i]) \cap BatchRows(bs[j]) = {}
           /\ \A i \in 1..Len(bs) :
                /\ BatchRows(bs[i]) \subseteq AllRows(Q)
                /\ YieldedRows(bs[i]) \subseteq BatchRows(bs[i])
                /\ \A k \in 1..Len(bs[i].out) :
                     bs[i].out[k] = ItemAt(Q, bs[i].a, bs[i].offset + k - 1)
           /\ iters[s].done =>
                UNION {BatchRows(bs[i]) : i \in 1..Len(bs)} = AllRows(Q)


(* C12: every batch yielded by iter_batched(n) lies within one archetype,   *)
(* starts at row offset n * batch_index of it and yields exactly            *)
(* min(n, archetype.len - offset) items, all of that archetype: never more  *)
(* than n and, for n >= 1, at least one.                                    *)
C12_BatchShape ==
    \A s \in Slots :
      iters[s].kind = "BatchedIter" =>
        LET n == iters[s].batch_size IN
        \A i \in 1..Len(batches[s]) :
          LET b == batches[s][i]
              len == archetypes[b.a].len
          IN /\ b.offset = n * b.index
             /\ b.offset < len
             /\ b.len = Min(n, len - b.offset)
             /\ b.len <= n
             /\ n >= 1 => b.len >= 1
             /\ Len(b.out) <= b.len
             /\ b.state.len = 0 => Len(b.out) = b.len
             /\ \A k \in 1..Len(b.out) : b.out[k].a = b.a


-----------------------------------------------------------------------------
(* Order of iteration *)

RECURSIVE RowOrder(_, _)
\* the items of Q by increasing archetype index and, within an archetype,
\* by increasing row, from archetype a on
RowOrder(Q, a) ==
    IF a > NA THEN <<>>
    ELSE (IF a \in Matching(Q)
          THEN [r \in 1..archetypes[a].len |-> ItemAt(Q, a, r - 1)]
          ELSE <<>>) \o RowOrder(Q, a + 1)

(* C13: QueryIter visits the archetypes in the order of the archetype list  *)
(* and the rows of an archetype in increasing row index: what it has        *)
(* yielded is always the beginning of that one sequence, and all of it when *)
(* next has returned None; so any two iterations of a query over the same   *)
(* archetype list yield the same sequence of rows.                          *)
C13_RowOrder ==
    \A s \in Slots :
      iters[s].kind = "QueryIter" =>
        LET order == RowOrder(queries[s].Q, 1)
            out == iters[s].out
        IN /\ Len(out) <= Len(order)
           /\ out = SubSeq(order, 1, Len(out))
           /\ iters[s].done => out = order

\* a finished iteration of (Entity, &A) over two rows of archetype {A}
\* followed by two rows of archetype {A, B}
C13_Witness ==
    /\ iters[1].kind = "QueryIter"
    /\ iters[1].done
    /\ queries[1].Q = QTuple(<<QEntity, QRead("A")>>)
    /\ archetypes[2].len = 2
    /\ archetypes[3].len = 2
    /\ Len(iters[1].out) = 4


-----------------------------------------------------------------------------
(* The table of per-archetype access *)

RECURSIVE TableAccess(_, _)
TableAccess(Q, arch) ==
    CASE Q.kind = "Entity" -> Iterate
      [] Q.kind = "Read" -> IF Q.t \in arch.types THEN Read ELSE Skip
      [] Q.kind = "Write" -> IF Q.t \in arch.types THEN Write ELSE Skip
      [] Q.kind = "Option" ->
           LET x == TableAccess(Q.sub[1], arch) IN
           IF x > Iterate THEN x ELSE Iterate
      [] Q.kind = "With" ->
           IF Q.t \in arch.types THEN TableAccess(Q.sub[1], arch) ELSE Skip
      [] Q.kind = "Without" ->
           IF Q.t \notin arch.types THEN TableAccess(Q.sub[1], arch) ELSE Skip
      [] Q.kind = "Tuple" ->
           LET xs == {TableAccess(Q.sub[i], arch) : i \in 1..Len(Q.sub)} IN
           IF Skip \in xs THEN Skip
           ELSE CHOOSE m \in xs \cup {Iterate} : \A x \in xs \cup {Iterate} : m >= x

(* C14: for every query handed to a borrow (the base forms and their        *)
(* with / without wrappings) and every archetype, Fetch::access gives the   *)
(* value of the table: Iterate for Entity; Read / Write for a shared /      *)
(* exclusive T the archetype has and skip otherwise; for Option<Q> the      *)
(* access of Q or Iterate when Q skips; for With / Without the access of Q  *)
(* when the archetype has / lacks T and skip otherwise; for a tuple skip    *)
(* when a child skips and else the strongest access of the children, with   *)
(* Iterate for the empty tuple; and skip is below Iterate < Read < Write.   *)
C14_AccessTable ==
    /\ Skip < Iterate /\ Iterate < Read /\ Read < Write
    /\ \A s \in Slots : \A a \in 1..NA :
         queries[s].st \in {"live", "panicked"} =>
           Fetch_access(queries[s].Q, archetypes[a])
             = TableAccess(queries[s].Q, archetypes[a])

\* iter() has walked the archetypes for Without<B, (Entity, &mut A,
\* Option<&B>)>: skip for {} (no A) and for {A, B} (has B), Write for {A}
\* where the Option's inner query skips
C14_Witness ==
    /\ queries[1].st = "live"
    /\ queries[1].borrowed
    /\ queries[1].Q = QWithout("B", QTuple(<<QEntity, QWrite("A"), QOption(QRead("B"))>>))
    /\ Fetch_access(queries[1].Q, archetypes[1]) = Skip
    /\ Fetch_access(queries[1].Q, archetypes[2]) = Write
    /\ Fetch_access(queries[1].Q, archetypes[3]) = Skip
    /\ Fetch_access(QOption(QRead("B")), archetypes[2]) = Iterate


-----------------------------------------------------------------------------
(* len() and size_hint() *)

(* C15: len() of a QueryIter that has yielded nothing yet is the number of  *)
(* rows of the archetypes whose access is not skip, and that is the number  *)
(* of items the iterator has yielded when next returns None (never more     *)
(* before).                                                                 *)
C15_FreshLenIsTotal ==
    \A s \in Slots :
      (iters[s].kind = "QueryIter" /\ iters[s].hint.seen /\ iters[s].hint.k = 0) =>
        /\ iters[s].hint.len = Cardinality(AllRows(queries[s].Q))
        /\ Len(iters[s].out) <= iters[s].hint.len
        /\ iters[s].done => Len(iters[s].out) = iters[s].hint.len

\* len() was read on the fresh iterator of With<B, &mut A>, which skips the
\* two rows of archetype {A}, and the iteration then ran to its end
C15_Witness ==
    /\ iters[1].kind = "QueryIter"
    /\ iters[1].done
    /\ iters[1].hint.seen
    /\ iters[1].hint.k = 0
    /\ queries[1].Q = QWith("B", QWrite("A"))
    /\ archetypes[2].len = 2
    /\ archetypes[3].len = 2
    /\ Len(iters[1].out) = 2


-----------------------------------------------------------------------------
(* Entity handles *)

(* C16: every entity handle a query has yielded for a row is equal, in id   *)
(* and in generation, to the handle spawn returned for the entity stored at *)
(* that row, also when the id was recycled after a despawn.                 *)
C16_YieldedHandleIsSpawned ==
    \A s \in Slots :
      iters[s].kind = "QueryIter" =>
        \A k \in 1..Len(iters[s].out) :
          \A x \in Leaves(iters[s].out[k], "Entity") :
            /\ x.v \in DOMAIN entities.meta
            /\ entities.meta[x.v].live
            /\ Entity_with_id(x.v) = Entities_handle(x.v)


-----------------------------------------------------------------------------
(* Items and borrows *)

\* the items slot s's iterator and batches have yielded and that are alive
YieldedItems(s) ==
    Range(iters[s].out) \cup UNION {Range(batches[s][i].out) : i \in 1..Len(batches[s])}

(* C17: whenever an item yielded by a QueryIter or by a Batch refers to     *)
(* column T of archetype a, the owning query borrow holds its borrow on     *)
(* (a, T): a shared one for a shared reference, the exclusive one for an    *)
(* exclusive reference; it was acquired before the item was yielded and is  *)
(* not released while the item exists.                                      *)
C17_ItemsUnderBorrow ==
    \A s \in Slots : \A item \in YieldedItems(s) :
      /\ queries[s].st = "live" /\ queries[s].borrowed
      /\ \A m \in Leaves(item, "Ref") :
           held[s][m.a][m.t] >= 1 /\ borrow_state[m.a][m.t] >= 1
      /\ \A m \in Leaves(item, "Mut") :
           held[s][m.a][m.t] = -1 /\ borrow_state[m.a][m.t] = -1

\* a batch of (&mut A, &B) has yielded a row of archetype {A, B}:
\* A is held exclusively and B shared
C17_Witness ==
    /\ queries[1].Q = QTuple(<<QWrite("A"), QRead("B")>>)
    /\ iters[1].kind = "BatchedIter"
    /\ \E i \in 1..Len(batches[1]) :
         /\ batches[1][i].out # <<>>
         /\ batches[1][i].a = 3
    /\ held[1][3]["A"] = -1
    /\ held[1][3]["B"] = 1


-----------------------------------------------------------------------------
(* The assertion of BatchedIter::next *)

(* C18: the debug assertion of BatchedIter::next never fails: Fetch::get    *)
(* has never rejected an archetype at a batch index other than 0; and for   *)
(* the query of every borrow and every archetype, Fetch::get is None at     *)
(* every row offset when access is skip and at none otherwise.              *)
C18_GetRejectsAtFirstBatch ==
    \A s \in Slots :
      /\ ~iters[s].asserted
      /\ queries[s].st \in {"live", "panicked"} =>
           \A a \in 1..NA : \A offset \in 0..archetypes[a].len :
             (Fetch_get(queries[s].Q, a, offset) = NoFetch)
               <=> (Fetch_access(queries[s].Q, archetypes[a]) = Skip)

\* iter_batched(1) of With<B, &mut A> has finished: Fetch::get rejected the
\* two rows of archetype {A} and two batches came from archetype {A, B}
C18_Witness ==
    /\ iters[1].kind = "BatchedIter"
    /\ iters[1].done
    /\ iters[1].batch_size = 1
    /\ queries[1].Q = QWith("B", QWrite("A"))
    /\ archetypes[2].len = 2
    /\ Len(batches[1]) = 2
    /\ \A i \in 1..2 : batches[1][i].a = 3


-----------------------------------------------------------------------------
(* Termination of batched iteration *)

(* C19: for every batch size, 0 included, a caller that goes on calling     *)
(* BatchedIter::next gets only finitely many batches: next eventually       *)
(* returns None (or the iteration is ended by a panic).                     *)
C19_BatchedIterEnds ==
    \A s \in Slots :
      [](iters[s].kind = "BatchedIter"
           => <>(iters[s].done \/ queries[s].st = "panicked"))

\* the same for batch sizes of at least 1
BatchedIterEndsFrom1 ==
    \A s \in Slots :
      []((iters[s].kind = "BatchedIter" /\ iters[s].batch_size >= 1)
           => <>(iters[s].done))


-----------------------------------------------------------------------------
(* len() and size_hint() during an iteration *)

(* C20: whenever len() and size_hint() are read from a QueryIter that has   *)
(* yielded k items, len() and both bounds of size_hint() are the number of  *)
(* items still to come: the rows of the archetypes the query does not skip, *)
(* less k.                                                                  *)
C20_LenIsRemaining ==
    \A s \in Slots :
      (iters[s].kind = "QueryIter" /\ iters[s].hint.seen) =>
        LET remaining == Cardinality(AllRows(queries[s].Q)) - iters[s].hint.k IN
        /\ iters[s].hint.len = remaining
        /\ iters[s].hint.lower = remaining
        /\ iters[s].hint.upper = remaining


-----------------------------------------------------------------------------
(* The row offset of a batch *)

(* C21: in BatchedIter::next the product batch_size * batch always fits in  *)
(* 32 bits unsigned, whatever the batch size and the archetype lengths:     *)
(* no call computes a product (or a batch counter) beyond the word, so no   *)
(* call wraps or panics on overflow, and no row is yielded by two batches.  *)
C21_OffsetNeverWraps ==
    \A s \in Slots :
      /\ queries[s].why # "overflow"
      /\ iters[s].kind = "BatchedIter" =>
           /\ ~iters[s].overflow
           /\ \A i, j \in 1..Len(batches[s]) :
                i # j => YieldedRows(batches[s][i]) \cap YieldedRows(batches[s][j]) = {}


-----------------------------------------------------------------------------
(* Calls after None *)

(* C22: once QueryIter::next has returned None, every later call returns    *)
(* None and yields no further item; the same holds for every Batch and, for *)
(* batch sizes of at least 1, for BatchedIter.                              *)
C22_NoneIsFinal ==
    \A s \in Slots :
      /\ (iters[s].kind = "QueryIter"
            \/ (iters[s].kind = "BatchedIter" /\ iters[s].batch_size >= 1))
           => ~iters[s].revived
      /\ \A i \in 1..Len(batches[s]) : ~batches[s][i].revived

\* a step of an iterator or a batch that has returned None changes nothing
\* but the count of Nones
NoneIsFinalStep ==
    [][\A s \in Slots :
         /\ (iters[s].done /\ iters'[s].kind = iters[s].kind) =>
              /\ iters'[s] = [iters[s] EXCEPT !.nones = iters'[s].nones]
              /\ Len(batches'[s]) = Len(batches[s])
         /\ \A i \in EndedBatches(s) :
              i \in 1..Len(batches'[s]) =>
                batches'[s][i] = [batches[s][i] EXCEPT !.nones = batches'[s][i].nones]]_vars

\* a QueryIter that yielded an item has returned None twice
C22_Witness ==
    \E s \in Slots :
      /\ iters[s].kind = "QueryIter"
      /\ Len(iters[s].out) >= 1
      /\ iters[s].nones >= 2

\* a BatchedIter of batch size >= 1 and one of its batches, which yielded an
\* item, have each returned None twice
FusedBatchReached ==
    \E s \in Slots :
      /\ iters[s].kind = "BatchedIter"
      /\ iters[s].batch_size >= 1
      /\ iters[s].nones >= 2
      /\ \E i \in 1..Len(batches[s]) :
           /\ Len(batches[s][i].out) >= 1
           /\ batches[s][i].nones >= 2

====
